---- MODULE Spec2Model ----
(***************************************************************************)
(* A model of greenpau/versioned: the Version calculus of versioned.go     *)
(* (NewVersion, String, IncrementMajor/Minor/Patch), the version file      *)
(* (NewVersionFromFile, UpdateFile, the increment flags of the command),   *)
(* the PackageManager (setters, Banner, ShortBanner) and the source-file   *)
(* synchronisation of cmd/versioned/main.go (syncGolangFile,               *)
(* syncPythonFile, syncJavascriptFile).                                    *)
(*                                                                         *)
(* A string is a sequence of one-character strings where the code looks at *)
(* characters (version strings), and a sequence of lexemes where the code  *)
(* looks at substrings (source lines).                                     *)
(***************************************************************************)
EXTENDS Integers, Sequences, FiniteSets, TLC

VARIABLES
    input,      \* the string handed to NewVersion
    version,    \* the *Version the caller holds, or nil
    err,        \* the error of the last NewVersion call ("" is nil)
    out,        \* the last result of Version.String(), or nil
    op,         \* the last operation executed
    arg,        \* the step argument i of the last Increment* call
    src,        \* the string the last NewVersion call parsed
    old,        \* the Version before the last operation
    nops        \* number of increment calls made so far

VARIABLES
    dialect,    \* which sync the file's extension selects: "go", "py" or "js"
    disk,       \* the target file on disk: its lines, each with its line ending
    pkg,        \* the PackageManager snapshot handed to the sync
    res,        \* what the last sync returned ("" is nil; NotRun before any)
    wrote,      \* whether the last sync called ioutil.WriteFile
    writes,     \* number of ioutil.WriteFile calls of all syncs so far
    scan,       \* the scanner's variables when the last sync left its loop
    before,     \* the file on disk when the last sync started
    runs,       \* number of syncs run so far
    mode        \* the permission bits of the target file on disk

VARIABLES
    files,      \* the version files on disk, by path (NoFile: no such file)
    oldFiles,   \* the version files before the last operation
    path,       \* the path handed to NewVersionFromFile or -source
    flags,      \* the increment flags of the last run of the command
    exit,       \* the exit status of the last run of the command (-1: none)
    pc,         \* where a run of the command with -sync stands
    git         \* whether the git commands of the run succeed

VARIABLES
    pm,         \* the PackageManager the caller holds
    pmOld,      \* the PackageManager before the last operation
    pmOp,       \* the last PackageManager operation and its arguments
    banner      \* the last result of Banner() or ShortBanner(), or nil

VARIABLES
    toc,          \* the TableOfContents the caller holds
    tocOld,       \* the TableOfContents before the last operation
    tocOp,        \* the last TableOfContents operation and its argument
    tocErr,       \* what the last AddHeading returned ("" is nil)
    rendered,     \* the last result of ToString(), or nil
    links,        \* what getLink returned for each entry in the last ToString()
    lastRendered, \* the result of the ToString() before, if no AddHeading came between
    renders       \* number of ToString() calls so far

verVars == <<input, version, err, out, op, arg, src, old, nops>>

syncVars == <<dialect, disk, pkg, res, wrote, writes, scan, before, runs, mode>>

fileVars == <<files, oldFiles, path, flags, exit, pc, git>>

pmVars == <<pm, pmOld, pmOp, banner>>

tocVars == <<toc, tocOld, tocOp, tocErr, rendered, links, lastRendered, renders>>

vars == <<verVars, syncVars, fileVars, pmVars, tocVars>>

\* A nil *Version, and "no string yet".
NilVersion == [nil |-> TRUE]

NoString == <<"nil">>

-----------------------------------------------------------------------------
(* Bounds of the model.                                                    *)

\* Longest string handed to NewVersion.
MaxLen == 6
\* Width of the unsigned integer type of Major/Minor/Patch, scaled down from
\* the 64 bits of uint64 so that overflow is within reach.
UintBits == 4
\* Largest step argument i handed to an Increment* call.
MaxStep == 2
\* Number of Increment* calls in one run.
MaxOps == 3
\* Longest Go target file, in lines.
MaxGoLines == 5
\* Longest Python or JavaScript target file, in lines.
MaxLines == 3
\* Number of syncs of the same file.
MaxRuns == 2
\* Longest target file of the runs that vary the permission bits, in lines.
MaxPermLines == 4
\* Longest version file, in lines.
MaxVersionLines == 2
\* Most entries of a TableOfContents.
MaxHeadings == 3
\* Deepest heading handed to AddHeading, in pound signs.
MaxDepth == 3
\* Most ToString() calls on one TableOfContents.
MaxRenders == 2

-----------------------------------------------------------------------------
(* Characters and unsigned integers.                                       *)

Digits == <<"0", "1", "2", "3", "4", "5", "6", "7", "8", "9">>

\* The characters the input strings are drawn from: three digits (which
\* spell values below, at and above the largest unsigned integer), the
\* separator and a character that is no digit.
InputChars == {"0", "1", "5", ".", "a"}

IsDigit(c) == \E d \in 1..10 : Digits[d] = c

DigitVal(c) == (CHOOSE d \in 1..10 : Digits[d] = c) - 1

\* uint64: values 0 .. 2^UintBits - 1, arithmetic modulo 2^UintBits.
UintMod == 2 ^ UintBits

MaxUint == UintMod - 1

\* v.Major++ and friends on an unsigned integer.
UintInc(n) == (n + 1) % UintMod

Steps == 0..MaxStep

RECURSIVE DecVal(_)
\* The number a sequence of decimal digits denotes.
DecVal(s) ==
    IF s = <<>> THEN 0
    ELSE 10 * DecVal(SubSeq(s, 1, Len(s) - 1)) + DigitVal(s[Len(s)])

\* strconv.ParseUint(s, 10, 64): an error for the empty string, for any
\* character that is no decimal digit (a sign included) and for a value
\* out of range.
ParseUint(s) ==
    IF s = <<>> \/ \E k \in 1..Len(s) : ~IsDigit(s[k])
    THEN [ok |-> FALSE, val |-> 0]
    ELSE IF DecVal(s) > MaxUint
         THEN [ok |-> FALSE, val |-> MaxUint]
         ELSE [ok |-> TRUE, val |-> DecVal(s)]

RECURSIVE Split(_, _)
\* strings.Split(s, sep) for a one-character separator.
Split(s, sep) ==
    IF \A k \in 1..Len(s) : s[k] # sep THEN <<s>>
    ELSE LET k == CHOOSE j \in 1..Len(s) :
                      s[j] = sep /\ \A h \in 1..(j - 1) : s[h] # sep
         IN  <<SubSeq(s, 1, k - 1)>> \o Split(SubSeq(s, k + 1, Len(s)), sep)

RECURSIVE FormatUint(_)
\* The %d verb of fmt.Sprintf on an unsigned integer.
FormatUint(n) ==
    IF n < 10 THEN <<Digits[n + 1]>>
    ELSE FormatUint(n \div 10) \o <<Digits[(n % 10) + 1]>>

-----------------------------------------------------------------------------
(* Version (versioned.go).                                                 *)

ErrEmpty == "empty string"
ErrFormat == "version must be in major.minor.patch format"
ErrMajor == "failed to parse major version"
ErrMinor == "failed to parse minor version"
ErrPatch == "failed to parse patch version"

\* NewVersion with the minor part checked before the major part.
NewVersion_MinorFirst(s) ==
    IF s = <<>> THEN [version |-> NilVersion, err |-> ErrEmpty]
    ELSE LET parts == Split(s, ".") IN
         IF Len(parts) # 3 THEN [version |-> NilVersion, err |-> ErrFormat]
         ELSE LET major == ParseUint(parts[1])
                  minor == ParseUint(parts[2])
                  patch == ParseUint(parts[3])
              IN  IF ~minor.ok THEN [version |-> NilVersion, err |-> ErrMinor]
                  ELSE IF ~major.ok THEN [version |-> NilVersion, err |-> ErrMajor]
                  ELSE IF ~patch.ok THEN [version |-> NilVersion, err |-> ErrPatch]
                  ELSE [version |-> [Major |-> major.val, Minor |-> minor.val,
                                     Patch |-> patch.val, FileName |-> "VERSION"],
                        err |-> ""]

\* NewVersion(s): the pair (version, err) it returns.
NewVersion(s) ==
    IF s = <<>> THEN [version |-> NilVersion, err |-> ErrEmpty]
    ELSE LET parts == Split(s, ".") IN
         IF Len(parts) # 3 THEN [version |-> NilVersion, err |-> ErrFormat]
         ELSE LET major == ParseUint(parts[1])
                  minor == ParseUint(parts[2])
                  patch == ParseUint(parts[3])
              IN  IF ~major.ok THEN [version |-> NilVersion, err |-> ErrMajor]
                  ELSE IF ~minor.ok THEN [version |-> NilVersion, err |-> ErrMinor]
                  ELSE IF ~patch.ok THEN [version |-> NilVersion, err |-> ErrPatch]
                  ELSE [version |-> [Major |-> major.val, Minor |-> minor.val,
                                     Patch |-> patch.val, FileName |-> "VERSION"],
                        err |-> ""]

\* String with the minor and patch components swapped.
String_Swapped(v) ==
    FormatUint(v.Major) \o <<".">> \o FormatUint(v.Patch) \o <<".">>
        \o FormatUint(v.Minor)

\* Version.String(): fmt.Sprintf("%d.%d.%d", v.Major, v.Minor, v.Patch).
String(v) ==
    FormatUint(v.Major) \o <<".">> \o FormatUint(v.Minor) \o <<".">>
        \o FormatUint(v.Patch)

\* IncrementMajor adding the step i instead of 1.
IncMajor_ByStep(v, i) ==
    [v EXCEPT !.Major = (v.Major + i) % UintMod, !.Minor = 0, !.Patch = 0]

\* The Version after v.IncrementMajor(i).
IncMajor(v, i) == [v EXCEPT !.Major = UintInc(v.Major), !.Minor = 0, !.Patch = 0]

\* IncrementMinor without the reset of patch.
IncMinor_NoReset(v, i) == [v EXCEPT !.Minor = UintInc(v.Minor)]

\* The Version after v.IncrementMinor(i).
IncMinor(v, i) == [v EXCEPT !.Minor = UintInc(v.Minor), !.Patch = 0]

\* IncrementPatch adding the step i instead of 1.
IncPatch_ByStep(v, i) == [v EXCEPT !.Patch = (v.Patch + i) % UintMod]

\* The Version after v.IncrementPatch(i).
IncPatch(v, i) == [v EXCEPT !.Patch = UintInc(v.Patch)]

-----------------------------------------------------------------------------
(* Source lines (cmd/versioned/main.go).  A line is a sequence of lexemes; *)
(* white space is always a lexeme of its own, so that a substring test of  *)
(* the code is a test for a run of lexemes.                                *)

Q == "\""

IsSpace(t) == t \in {" ", "\t"}

\* strings.Contains(line, pat)
Contains(line, pat) ==
    \E k \in 1..(Len(line) - Len(pat) + 1) :
        \A i \in 1..Len(pat) : line[k + i - 1] = pat[i]

\* strings.HasPrefix(line, pat)
HasPrefix(line, pat) ==
    Len(line) >= Len(pat) /\ \A i \in 1..Len(pat) : line[i] = pat[i]

RECURSIVE Replace(_, _, _)
\* strings.Replace(line, from, to, -1) for a non-empty from: every
\* non-overlapping occurrence, left to right.
Replace(line, from, to) ==
    IF Len(line) < Len(from) THEN line
    ELSE IF SubSeq(line, 1, Len(from)) = from
         THEN to \o Replace(SubSeq(line, Len(from) + 1, Len(line)), from, to)
         ELSE <<line[1]>> \o Replace(Tail(line), from, to)

\* bufio.Scanner with ScanLines: one token per line, its line ending (a
\* newline with an optional carriage return before it) stripped.
ScanLines(file) == [k \in 1..Len(file) |-> file[k].text]

\* The bytes a sync hands to ioutil.WriteFile: every scanned line followed by
\* "\n".
BufferBytes(buffer) == [k \in 1..Len(buffer) |-> [text |-> buffer[k], eol |-> "\n"]]

\* The perm argument of the ioutil.WriteFile call of syncGolangFile: 0644.
GoWritePerm == 420

\* fi.Mode().Perm(): the permission bits of the target file.
Perm(m) == m % 512

pkgName == <<"github.com/greenpau/versioned">>

FuncInit == <<"func", " ", "init()", " ", "{">>

NewPackageManager == <<"versioned.NewPackageManager">>

ErrNotRun == "not run"
ErrPkgNotFound == "package github.com/greenpau/versioned not found"
ErrPkgNotInit == "package github.com/greenpau/versioned is not initialized"
ErrGoVersion == "package version not found"

\* The positions p of ".Set" at which the rest of
\*   \s*(\S.*)\.Set(\S+)\(\S+, "(.*)"
\* matches: something that is no white space before it, then a name, "(",
\* an argument, ", ", a quote, and a quote somewhere after that.
SetPositions(line) ==
    {p \in 2..(Len(line) - 7) :
        /\ \E q \in 1..(p - 1) : ~IsSpace(line[q])
        /\ line[p] = ".Set"
        /\ ~IsSpace(line[p + 1])
        /\ line[p + 2] = "("
        /\ ~IsSpace(line[p + 3])
        /\ line[p + 4] = ","
        /\ line[p + 5] = " "
        /\ line[p + 6] = Q
        /\ \E r \in (p + 7)..Len(line) : line[r] = Q}

\* verRegex.FindStringSubmatch(line): m[2] and m[3] of the match.  The
\* quantifiers are greedy: (\S.*) reaches to the last ".Set" that matches
\* and (.*) to the last quote of the line.
FindStringSubmatch(line) ==
    IF SetPositions(line) = {} THEN [ok |-> FALSE, m2 |-> "", m3 |-> <<>>]
    ELSE LET p == CHOOSE x \in SetPositions(line) :
                      \A y \in SetPositions(line) : y <= x
             r == CHOOSE x \in (p + 7)..Len(line) :
                      line[x] = Q /\ \A y \in (x + 1)..Len(line) : line[y] # Q
         IN  [ok |-> TRUE, m2 |-> line[p + 1], m3 |-> SubSeq(line, p + 7, r - 1)]

\* The scanner variables of syncGolangFile before the first line.
GoStart ==
    [isPackageIncluded |-> FALSE, isPackageInitialized |-> FALSE,
     foundVersionMatch |-> FALSE, rewrite |-> FALSE, isInsideInit |-> 0,
     buffer |-> <<>>]

\* The Set<Field> call with the Version field counted as found only when
\* its literal was replaced.
GoSetCall_FoundOnReplace(st, line, p) ==
    LET m == FindStringSubmatch(line)
        repl == CASE m.m2 = "Version" -> p.Version
                  [] m.m2 = "GitBranch" -> p.Branch
                  [] m.m2 = "GitCommit" -> p.Commit
                  [] OTHER -> <<>>
        isRepl == m.ok /\ m.m2 \in {"Version", "GitBranch", "GitCommit"} /\ m.m3 # repl
    IN  IF isRepl
        THEN [st EXCEPT !.foundVersionMatch = @ \/ m.m2 = "Version", !.rewrite = TRUE,
                        !.buffer = Append(@, Replace(line, <<Q>> \o m.m3 \o <<Q>>,
                                                     <<Q>> \o repl \o <<Q>>))]
        ELSE [st EXCEPT !.buffer = Append(@, line)]

\* The part of the loop body of syncGolangFile that runs inside the init
\* function once the constructor call was seen: the Set<Field> call.
GoSetCall(st, line, p) ==
    LET m == FindStringSubmatch(line)
        repl == CASE m.m2 = "Version" -> p.Version
                  [] m.m2 = "GitBranch" -> p.Branch
                  [] m.m2 = "GitCommit" -> p.Commit
                  [] OTHER -> <<>>
        isRepl == m.ok /\ m.m2 \in {"Version", "GitBranch", "GitCommit"} /\ m.m3 # repl
        found == st.foundVersionMatch \/ (m.ok /\ m.m2 = "Version")
    IN  IF isRepl
        THEN [st EXCEPT !.foundVersionMatch = found, !.rewrite = TRUE,
                        !.buffer = Append(@, Replace(line, <<Q>> \o m.m3 \o <<Q>>,
                                                     <<Q>> \o repl \o <<Q>>))]
        ELSE [st EXCEPT !.foundVersionMatch = found, !.buffer = Append(@, line)]

\* The loop body with "inside init" as a flag that a closing brace or a
\* second init function does not clear.
GoLine_InitFlag(st, line, p) ==
    IF Contains(line, pkgName)
    THEN [st EXCEPT !.isPackageIncluded = TRUE, !.buffer = Append(@, line)]
    ELSE IF Contains(line, FuncInit)
    THEN [st EXCEPT !.isInsideInit = @ + 1, !.buffer = Append(@, line)]
    ELSE IF st.isInsideInit = 1 /\ HasPrefix(line, <<"}">>)
    THEN [st EXCEPT !.isInsideInit = @ + 1, !.buffer = Append(@, line)]
    ELSE IF st.isInsideInit >= 1 /\ Contains(line, NewPackageManager)
    THEN [st EXCEPT !.isPackageInitialized = TRUE, !.buffer = Append(@, line)]
    ELSE IF st.isInsideInit >= 1 /\ st.isPackageInitialized
    THEN GoSetCall(st, line, p)
    ELSE [st EXCEPT !.buffer = Append(@, line)]

\* One pass of the loop body of syncGolangFile over a line.
GoLine(st, line, p) ==
    IF Contains(line, pkgName)
    THEN [st EXCEPT !.isPackageIncluded = TRUE, !.buffer = Append(@, line)]
    ELSE IF Contains(line, FuncInit)
    THEN [st EXCEPT !.isInsideInit = @ + 1, !.buffer = Append(@, line)]
    ELSE IF st.isInsideInit = 1 /\ HasPrefix(line, <<"}">>)
    THEN [st EXCEPT !.isInsideInit = @ + 1, !.buffer = Append(@, line)]
    ELSE IF st.isInsideInit = 1 /\ Contains(line, NewPackageManager)
    THEN [st EXCEPT !.isPackageInitialized = TRUE, !.buffer = Append(@, line)]
    ELSE IF st.isInsideInit = 1 /\ st.isPackageInitialized
    THEN GoSetCall(st, line, p)
    ELSE [st EXCEPT !.buffer = Append(@, line)]

RECURSIVE GoScan(_, _, _)
\* The scanner loop of syncGolangFile over the lines of the file.
GoScan(st, lines, p) ==
    IF lines = <<>> THEN st
    ELSE GoScan(GoLine(st, Head(lines), p), Tail(lines), p)

\* The checks after the loop with the version check first.
GoError_VersionFirst(st) ==
    IF ~st.foundVersionMatch THEN ErrGoVersion
    ELSE IF ~st.isPackageIncluded THEN ErrPkgNotFound
    ELSE IF ~st.isPackageInitialized THEN ErrPkgNotInit
    ELSE ""

\* The error syncGolangFile returns after the loop ("" is nil).
GoError(st) ==
    IF ~st.isPackageIncluded THEN ErrPkgNotFound
    ELSE IF ~st.isPackageInitialized THEN ErrPkgNotInit
    ELSE IF ~st.foundVersionMatch THEN ErrGoVersion
    ELSE ""

\* A write of the buffer before the checks for the markers.
GoWrites_BeforeChecks(st) == st.rewrite

\* A write of the buffer whenever the checks pass, changed or not.
GoWrites_Always(st) == GoError(st) = ""

\* Whether syncGolangFile writes the buffer to the file.
GoWrites(st) == GoError(st) = "" /\ st.rewrite

-----------------------------------------------------------------------------
(* syncPythonFile and syncJavascriptFile.                                  *)

\* strings.TrimSpace(v)
TrimSpace(v) ==
    LET keep == {k \in 1..Len(v) : ~IsSpace(v[k])} IN
    IF keep = {} THEN <<>>
    ELSE SubSeq(v, CHOOSE k \in keep : \A h \in keep : k <= h,
                   CHOOSE k \in keep : \A h \in keep : h <= k)

\* strings.Replace(v, c, "", -1), for every character c of chars.
Strip(v, chars) == SelectSeq(v, LAMBDA t : t \notin chars)

\* Whether strings.SplitN(line, sep, 2) has a second element.
HasSep(line, sep) == \E k \in 1..Len(line) : line[k] = sep

\* strings.SplitN(line, sep, 2)[1]: what follows the first sep.
AfterSep(line, sep) ==
    LET k == CHOOSE j \in 1..Len(line) :
                 line[j] = sep /\ \A h \in 1..(j - 1) : line[h] # sep
    IN  SubSeq(line, k + 1, Len(line))

RECURSIVE ReplaceAll(_, _, _)
\* strings.ReplaceAll(line, from, to).  An empty from matches before every
\* character and at the end of the line.
ReplaceAll(line, from, to) ==
    IF from = <<>>
    THEN IF line = <<>> THEN to
         ELSE to \o <<line[1]>> \o ReplaceAll(Tail(line), from, to)
    ELSE Replace(line, from, to)

versionDunder == <<"__version__">>

ErrPyVersion == "__version__ module level dunder not found"
ErrJsVersion == "version not found"
\* The run ends in a Go runtime panic (index out of range).
Panic == "panic: index out of range"

PyStart ==
    [isVersionDunderExist |-> FALSE, fileVersion |-> <<>>, panicked |-> FALSE,
     buffer |-> <<>>]

\* One pass of the loop body of syncPythonFile over a line.
PyLine(st, line, p) ==
    IF HasPrefix(line, versionDunder)
    THEN IF ~HasSep(line, "=")
         THEN [st EXCEPT !.isVersionDunderExist = TRUE, !.panicked = TRUE]
         ELSE LET v == Strip(TrimSpace(AfterSep(line, "=")), {"'", Q}) IN
              [st EXCEPT !.isVersionDunderExist = TRUE,
                         !.fileVersion = v,
                         !.buffer = Append(@,
                             IF v # p.Version
                             THEN <<"__version__", " ", "=", " ", "'">>
                                      \o p.Version \o <<"'">>
                             ELSE line)]
    ELSE [st EXCEPT !.buffer = Append(@, line)]

RECURSIVE PyScan(_, _, _)
\* The scanner loop of syncPythonFile; a panic ends it.
PyScan(st, lines, p) ==
    IF lines = <<>> \/ st.panicked THEN st
    ELSE PyScan(PyLine(st, Head(lines), p), Tail(lines), p)

\* What syncPythonFile returns ("" is nil), or the panic it dies of.
PyError(st) ==
    IF st.panicked THEN Panic
    ELSE IF ~st.isVersionDunderExist THEN ErrPyVersion
    ELSE ""

\* Whether syncPythonFile writes the buffer to the file.
PyWrites(st, p) == PyError(st) = "" /\ p.Version # st.fileVersion

JsMarker == <<"V", "e", "r", "s", "i", "o", "n", ":", " ">>

JsStart == [isVersionFound |-> FALSE, fileVersion |-> <<>>, buffer |-> <<>>]

\* One pass of the loop body of syncJavascriptFile over a line.
JsLine(st, line, p) ==
    IF Contains(line, JsMarker)
    THEN LET v == TrimSpace(Strip(TrimSpace(AfterSep(line, ":")), {",", "'", Q})) IN
         [st EXCEPT !.isVersionFound = TRUE,
                    !.fileVersion = v,
                    !.buffer = Append(@,
                        IF v # p.Version THEN ReplaceAll(line, v, p.Version)
                        ELSE line)]
    ELSE [st EXCEPT !.buffer = Append(@, line)]

RECURSIVE JsScan(_, _, _)
\* The scanner loop of syncJavascriptFile.
JsScan(st, lines, p) ==
    IF lines = <<>> THEN st
    ELSE JsScan(JsLine(st, Head(lines), p), Tail(lines), p)

\* The error syncJavascriptFile returns ("" is nil).
JsError(st) == IF ~st.isVersionFound THEN ErrJsVersion ELSE ""

\* Whether syncJavascriptFile writes the buffer to the file.
JsWrites(st, p) == JsError(st) = "" /\ p.Version # st.fileVersion

-----------------------------------------------------------------------------
(* The version file: readVersionFromFile, NewVersionFromFile, UpdateFile   *)
(* and the increment flags of the command.  A file is the sequence of its  *)
(* lines, each with its line ending; the empty sequence is the empty file. *)

\* The paths of the version files: the default and the one of the test.
Paths == {"VERSION", "PROP_VERSION"}

\* os.Open fails: there is no file at the path.
NoFile == <<[absent |-> TRUE]>>

ErrRead == "error reading file"

\* ioutil.WriteFile(name, data, perm), the permission bits of the file after
\* the call: an existing file is truncated and keeps its bits, a new file
\* gets perm.
WriteFileMode_Chmod(exists, cur, perm) == perm

WriteFileMode(exists, cur, perm) == IF exists THEN cur ELSE perm

\* readVersionFromFile without the trimming of the line.
readVersionFromFile_NoTrim(file) ==
    IF file = NoFile THEN [str |-> <<>>, err |-> ErrRead]
    ELSE IF ScanLines(file) = <<>> THEN [str |-> <<>>, err |-> ""]
    ELSE [str |-> Head(ScanLines(file)), err |-> ""]

\* readVersionFromFile with the blank lines before the version skipped.
readVersionFromFile_SkipBlank(file) ==
    IF file = NoFile THEN [str |-> <<>>, err |-> ErrRead]
    ELSE LET full == {k \in 1..Len(file) : TrimSpace(file[k].text) # <<>>} IN
         IF full = {} THEN [str |-> <<>>, err |-> ""]
         ELSE [str |-> TrimSpace(file[CHOOSE k \in full : \A h \in full : k <= h].text),
               err |-> ""]

\* readVersionFromFile(filePath): the first token of the scanner, trimmed;
\* the loop breaks after it.
readVersionFromFile(file) ==
    IF file = NoFile THEN [str |-> <<>>, err |-> ErrRead]
    ELSE IF ScanLines(file) = <<>> THEN [str |-> <<>>, err |-> ""]
    ELSE [str |-> TrimSpace(Head(ScanLines(file))), err |-> ""]

\* NewVersionFromFile(versionFile) on the file system fs: the pair
\* (version, err) it returns.
NewVersionFromFile(fs, versionFile) ==
    LET f == IF versionFile = "" THEN "VERSION" ELSE versionFile
        r == readVersionFromFile(fs[f])
    IN  IF r.err # "" THEN [version |-> NilVersion, err |-> ErrRead]
        ELSE IF NewVersion(r.str).err # "" THEN NewVersion(r.str)
        ELSE [version |-> [NewVersion(r.str).version EXCEPT !.FileName = f],
              err |-> ""]

\* v.Bytes(): the bytes of v.String(), with no line ending.
Bytes(v) == <<[text |-> String(v), eol |-> ""]>>

\* UpdateFile writing over the start of the file without truncating it.
UpdateFile_NoTruncate(fs, v) ==
    [fs EXCEPT ![v.FileName] = IF @ = NoFile THEN Bytes(v) ELSE Bytes(v) \o @]

\* v.UpdateFile(): the file system after ioutil.WriteFile(v.FileName,
\* v.Bytes(), 0644).
UpdateFile(fs, v) == [fs EXCEPT ![v.FileName] = Bytes(v)]

\* v.SetFile(fp): binds the Version to the path fp.
SetFile(v, fp) == [v EXCEPT !.FileName = fp]

\* The version a new version file is initialized with.
InitialVersion == <<"1", ".", "0", ".", "0">>

\* -init overwriting a version file that loads.
InitFile_Overwrite(fs, p) ==
    [files |-> UpdateFile(fs, SetFile(NewVersion(InitialVersion).version, p)),
     exit |-> 0]

\* The -init branch of main on the file system fs with -source p: the file
\* system and the exit status after it.
InitFile(fs, p) ==
    IF NewVersionFromFile(fs, p).err = "" THEN [files |-> fs, exit |-> 0]
    ELSE [files |-> UpdateFile(fs, SetFile(NewVersion(InitialVersion).version, p)),
          exit |-> 0]

\* The increments of main in the order patch, minor, major.
MainIncrements_PatchFirst(v, fl) ==
    LET a == IF fl.patch THEN IncPatch(v, fl.factor) ELSE v
        b == IF fl.minor THEN IncMinor(a, fl.factor) ELSE a
    IN  IF fl.major THEN IncMajor(b, fl.factor) ELSE b

\* The increments of main: -major, then -minor, then -patch, each with
\* the value of -factor.
MainIncrements(v, fl) ==
    LET a == IF fl.major THEN IncMajor(v, fl.factor) ELSE v
        b == IF fl.minor THEN IncMinor(a, fl.factor) ELSE a
    IN  IF fl.patch THEN IncPatch(b, fl.factor) ELSE b

-----------------------------------------------------------------------------
(* PackageManager: the setters and the banners.  A string is a sequence of *)
(* lexemes; the empty sequence is "".                                      *)

\* NewPackageManager(s): only the name is set.
NewPackageManagerOf(s) ==
    [Name |-> s, Version |-> <<>>, Branch |-> <<>>, Commit |-> <<>>,
     User |-> <<>>, Date |-> <<>>, OperatingSystem |-> <<>>, Architecture |-> <<>>]

\* The field a setter assigns.
SetterField ==
    [SetVersion |-> "Version", SetGitBranch |-> "Branch", SetGitCommit |-> "Commit",
     SetBuildUser |-> "User", SetBuildDate |-> "Date"]

Setters == DOMAIN SetterField

\* A setter that keeps a field that is already set.
Set_KeepExisting(p, name, v, d) ==
    IF p[SetterField[name]] # <<>> THEN p
    ELSE [p EXCEPT ![SetterField[name]] = IF v # <<>> THEN v ELSE d]

\* p.Set<Field>(v, d)
Set(p, name, v, d) ==
    [p EXCEPT ![SetterField[name]] = IF v # <<>> THEN v ELSE d]

\* runtime.GOOS, runtime.GOARCH and runtime.Version() of the build.
Runtime == <<" (", "linux", "/", "amd64", " ", "go1.x", ")">>

\* Banner with the commit before the branch.
Banner_CommitFirst(p) ==
    p.Name \o <<" ">> \o p.Version
      \o (IF p.Commit # <<>> THEN <<", commit: ">> \o p.Commit ELSE <<>>)
      \o (IF p.Branch # <<>> THEN <<", branch: ">> \o p.Branch ELSE <<>>)
      \o (IF p.User # <<>> /\ p.Date # <<>>
          THEN <<", build on ">> \o p.Date \o <<" by ">> \o p.User
                 \o (IF p.OperatingSystem # <<>> /\ p.Architecture # <<>>
                     THEN <<" for ">> \o p.OperatingSystem \o <<"/">> \o p.Architecture
                     ELSE <<>>)
                 \o Runtime
          ELSE <<>>)

\* p.Banner()
Banner(p) ==
    p.Name \o <<" ">> \o p.Version
      \o (IF p.Branch # <<>> THEN <<", branch: ">> \o p.Branch ELSE <<>>)
      \o (IF p.Commit # <<>> THEN <<", commit: ">> \o p.Commit ELSE <<>>)
      \o (IF p.User # <<>> /\ p.Date # <<>>
          THEN <<", build on ">> \o p.Date \o <<" by ">> \o p.User
                 \o (IF p.OperatingSystem # <<>> /\ p.Architecture # <<>>
                     THEN <<" for ">> \o p.OperatingSystem \o <<"/">> \o p.Architecture
                     ELSE <<>>)
                 \o Runtime
          ELSE <<>>)

\* p.ShortBanner()
ShortBanner(p) == p.Name \o <<" ">> \o p.Version

-----------------------------------------------------------------------------
(* TableOfContents (toc.go). A heading and a title are sequences of        *)
(* characters; linkRef is a function from the anchors handed out so far to *)
(* their counters.                                                         *)

ErrTocEmpty == "cannot add an empty string"
ErrTocPound == "heading must start with a pound"
ErrTocHop == "heading hopped more than one level"

\* The run-time panics of the package: AddHeading indexes arr[1] of a slice
\* of one element; strings.Repeat is handed a negative count.
PanicIndex == "panic: runtime error: index out of range [1] with length 1"
PanicRepeat == "panic: strings: negative Repeat count"

TocPanics == {PanicIndex, PanicRepeat}

allowedLinkChars ==
    {"0", "1", "2", "3", "4", "5", "6", "7", "8", "9",
     "a", "b", "c", "d", "e", "f", "g", "h", "i", "j", "k", "l", "m",
     "n", "o", "p", "q", "r", "s", "t", "u", "v", "w", "x", "y", "z", "-"}

UpperChars ==
    <<"A", "B", "C", "D", "E", "F", "G", "H", "I", "J", "K", "L", "M",
      "N", "O", "P", "Q", "R", "S", "T", "U", "V", "W", "X", "Y", "Z">>

LowerChars ==
    <<"a", "b", "c", "d", "e", "f", "g", "h", "i", "j", "k", "l", "m",
      "n", "o", "p", "q", "r", "s", "t", "u", "v", "w", "x", "y", "z">>

\* strings.ToLower(s)
ToLower(s) ==
    [k \in 1..Len(s) |->
        IF \E u \in 1..26 : UpperChars[u] = s[k]
        THEN LowerChars[CHOOSE u \in 1..26 : UpperChars[u] = s[k]]
        ELSE s[k]]

\* strings.SplitN(s, sep, 2) for a one-character separator: the whole string
\* when it holds no separator, else the part before the first separator and
\* everything after it.
SplitN(s, sep) ==
    IF \A k \in 1..Len(s) : s[k] # sep THEN <<s>>
    ELSE LET k == CHOOSE j \in 1..Len(s) :
                      s[j] = sep /\ \A h \in 1..(j - 1) : s[h] # sep
         IN  <<SubSeq(s, 1, k - 1), SubSeq(s, k + 1, Len(s))>>

RECURSIVE Repeat(_, _)
\* strings.Repeat(s, count) for count >= 0.
Repeat(s, count) == IF count <= 0 THEN <<>> ELSE s \o Repeat(s, count - 1)

NewTableOfContents ==
    [entries |-> <<>>, minDepth |-> 1000, maxDepth |-> 0, lastDepth |-> 0,
     sep |-> "*", linkRef |-> [l \in {} |-> 0]]

\* The hop test of AddHeading on the depth of the new heading and the depth
\* of the last accepted one.
Hopped(depth, lastDepth) == depth - lastDepth > 1 /\ lastDepth > 0

\* toc.AddHeading(s): the TableOfContents after the call and the error it
\* returns ("" is nil), or the panic that ends it.
AddHeading(t, s) ==
    IF s = <<>> THEN [toc |-> t, err |-> ErrTocEmpty]
    ELSE IF ~HasPrefix(TrimSpace(s), <<"#">>) THEN [toc |-> t, err |-> ErrTocPound]
    ELSE LET arr == SplitN(s, " ") IN
         IF Len(arr) < 2 THEN [toc |-> t, err |-> PanicIndex]
         ELSE LET h == [title |-> TrimSpace(arr[2]), link |-> <<>>,
                        depth |-> Len(arr[1])]
                  t1 == [t EXCEPT
                            !.maxDepth = IF h.depth > @ THEN h.depth ELSE @,
                            !.minDepth = IF h.depth < @ THEN h.depth ELSE @]
              IN  IF Hopped(h.depth, t.lastDepth)
                  THEN [toc |-> t1, err |-> ErrTocHop]
                  ELSE [toc |-> [t1 EXCEPT !.lastDepth = h.depth,
                                           !.entries = Append(@, h)],
                        err |-> ""]

\* The anchor of a title before any counter is appended: lower case, a
\* hyphen for each space, every other character outside allowedLinkChars
\* dropped.
BaseLink(s) ==
    LET low == ToLower(s)
        hyphened == [k \in 1..Len(low) |-> IF low[k] = " " THEN "-" ELSE low[k]]
    IN  <<"#">> \o SelectSeq(hyphened, LAMBDA c : c \in allowedLinkChars)

\* toc.getLink(s): the anchor, and the TableOfContents with its linkRef
\* updated.
getLink(t, s) ==
    LET link == BaseLink(s)
        ref == t.linkRef
    IN  IF link \in DOMAIN ref
        THEN [toc |-> [t EXCEPT !.linkRef = [ref EXCEPT ![link] = ref[link] + 1]],
              link |-> link \o <<"-">> \o FormatUint(ref[link])]
        ELSE [toc |-> [t EXCEPT !.linkRef =
                          [l \in DOMAIN ref \cup {link} |->
                              IF l = link THEN 1 ELSE ref[l]]],
              link |-> link]

\* One line of the rendering: indentation, separator, title and anchor.
TocLine(t, h, link) ==
    Repeat(<<" ", " ">>, h.depth - t.minDepth)
        \o <<t.sep, " ", "[">> \o h.title \o <<"]", "(">> \o link \o <<")", "\n">>

RECURSIVE RenderFrom(_, _, _, _)
\* The loop of ToString from entry k on: text and links are what the loop
\* has produced so far.
RenderFrom(t, k, text, ls) ==
    IF k > Len(t.entries) THEN [toc |-> t, text |-> text, links |-> ls, err |-> ""]
    ELSE LET h == t.entries[k] IN
         IF h.depth - t.minDepth < 0
         THEN [toc |-> t, text |-> NoString, links |-> ls, err |-> PanicRepeat]
         ELSE LET g == getLink(t, h.title) IN
              RenderFrom(g.toc, k + 1, text \o TocLine(t, h, g.link),
                         Append(ls, g.link))

\* toc.ToString() (the name ToString is taken by the TLC module)
TocToString(t) == RenderFrom(t, 1, <<>>, <<>>)

-----------------------------------------------------------------------------
(* The version calculus as a state machine, in the order of                *)
(* TestVersionedCalculus: a caller parses a string, applies increments,    *)
(* renders the Version, and may parse the rendering again.                 *)

Strings(n) == UNION {[1..k -> InputChars] : k \in 0..n}

\* pkg.Version = version.String() of the version file; here "2.0.0".
SnapVersion == String([Major |-> 2, Minor |-> 0, Patch |-> 0, FileName |-> "VERSION"])

\* The snapshot main builds from the version file and git (main.go:500-503).
Snapshot == [Version |-> SnapVersion, Branch |-> <<"main">>, Commit |-> <<"abc1234">>]

\* No sync is under way: the values of the sync variables in a run that only
\* calls the version calculus.
SyncIdle ==
    /\ dialect = "go"
    /\ disk = <<>>
    /\ pkg = Snapshot
    /\ res = ErrNotRun
    /\ wrote = FALSE
    /\ writes = 0
    /\ scan = GoStart
    /\ before = <<>>
    /\ runs = 0
    /\ mode = GoWritePerm

\* The version file the test writes: exactly "1.2.3".
V123 == <<"1", ".", "2", ".", "3">>

CanonFile == <<[text |-> V123, eol |-> ""]>>

NoFlags == [major |-> FALSE, minor |-> FALSE, patch |-> FALSE, factor |-> 1]

\* No version file is read or written in the run.
FileIdle ==
    /\ files = [q \in Paths |-> CanonFile]
    /\ oldFiles = files
    /\ path = ""
    /\ flags = NoFlags
    /\ exit = -1
    /\ pc = "idle"
    /\ git = TRUE

NoCall == [name |-> "none", v |-> <<>>, d |-> <<>>]

\* No PackageManager is in use in the run.
PmIdle ==
    /\ pm = NewPackageManagerOf(<<"versioned">>)
    /\ pmOld = NewPackageManagerOf(<<"versioned">>)
    /\ pmOp = NoCall
    /\ banner = NoString

NoTocCall == [name |-> "none", s |-> <<>>]

\* A TableOfContents as NewTableOfContents returns it, with no call made.
TocIdle ==
    /\ toc = NewTableOfContents
    /\ tocOld = NewTableOfContents
    /\ tocOp = NoTocCall
    /\ tocErr = ""
    /\ rendered = NoString
    /\ links = <<>>
    /\ lastRendered = NoString
    /\ renders = 0

Init ==
    /\ input \in Strings(MaxLen)
    /\ version = NilVersion
    /\ err = ""
    /\ out = NoString
    /\ op = "none"
    /\ arg = 0
    /\ src = NoString
    /\ old = NilVersion
    /\ nops = 0
    /\ SyncIdle
    /\ FileIdle
    /\ PmIdle
    /\ TocIdle

\* version, err := NewVersion(s), on the input or on the last rendering.
NewVersionCall ==
    /\ op \in {"none", "String"}
    /\ LET s == IF op = "none" THEN input ELSE out IN
        /\ version' = NewVersion(s).version
        /\ err' = NewVersion(s).err
        /\ src' = s
    /\ op' = "NewVersion"
    /\ old' = version
    /\ UNCHANGED <<input, out, arg, nops>>
    /\ UNCHANGED <<syncVars, fileVars, pmVars, tocVars>>

IncrementMajor(i) ==
    /\ version # NilVersion
    /\ op # "main"
    /\ out = NoString
    /\ nops < MaxOps
    /\ version' = IncMajor(version, i)
    /\ op' = "IncrementMajor"
    /\ arg' = i
    /\ old' = version
    /\ nops' = nops + 1
    /\ UNCHANGED <<input, err, out, src>>
    /\ UNCHANGED <<syncVars, fileVars, pmVars, tocVars>>

IncrementMinor(i) ==
    /\ version # NilVersion
    /\ op # "main"
    /\ out = NoString
    /\ nops < MaxOps
    /\ version' = IncMinor(version, i)
    /\ op' = "IncrementMinor"
    /\ arg' = i
    /\ old' = version
    /\ nops' = nops + 1
    /\ UNCHANGED <<input, err, out, src>>
    /\ UNCHANGED <<syncVars, fileVars, pmVars, tocVars>>

IncrementPatch(i) ==
    /\ version # NilVersion
    /\ op # "main"
    /\ out = NoString
    /\ nops < MaxOps
    /\ version' = IncPatch(version, i)
    /\ op' = "IncrementPatch"
    /\ arg' = i
    /\ old' = version
    /\ nops' = nops + 1
    /\ UNCHANGED <<input, err, out, src>>
    /\ UNCHANGED <<syncVars, fileVars, pmVars, tocVars>>

\* out := version.String()
StringCall ==
    /\ version # NilVersion
    /\ out = NoString
    /\ out' = String(version)
    /\ op' = "String"
    /\ old' = version
    /\ UNCHANGED <<input, version, err, arg, src, nops>>
    /\ UNCHANGED <<syncVars, fileVars, pmVars, tocVars>>

Next ==
    \/ NewVersionCall
    \/ \E i \in Steps : IncrementMajor(i)
    \/ \E i \in Steps : IncrementMinor(i)
    \/ \E i \in Steps : IncrementPatch(i)
    \/ StringCall

Spec == Init /\ [][Next]_vars

-----------------------------------------------------------------------------
(* The sync of a source file as a state machine: a target file of one of   *)
(* the three dialects is on disk, and each run of the tool with -sync      *)
(* calls the sync function its extension selects (main.go:505-527).        *)

\* A version literal of the target file that differs from the snapshot.
OldVersion == <<"1", ".", "0", ".", "1">>

\* The lines of a Go target in the layout of README.md, "Package Metadata".
GoImport == <<"\t", Q>> \o pkgName \o <<Q>>

GoInitOpen == FuncInit

GoClose == <<"}">>

GoCtor == <<"\t", "app", " ", "=", " ">> \o NewPackageManager \o <<"(", Q, "myapp", Q, ")">>

GoSet(field, v, lit, tail) ==
    <<"\t", "app", ".Set", field, "(", v, ",", " ", Q>> \o lit \o <<Q, ")">> \o tail

\* app.SetVersion(appVersion, "1.0.1")
GoSetVersion == GoSet("Version", "appVersion", OldVersion, <<>>)

\* app.SetVersion(appVersion, "1.0.1") // "x"
GoSetVersionComment ==
    GoSet("Version", "appVersion", OldVersion, <<" ", "//", " ", Q, "x", Q>>)

\* app.SetGitBranch(gitBranch, "master")
GoSetGitBranch == GoSet("GitBranch", "gitBranch", <<"master">>, <<>>)

\* The lines after the import declaration of a Go target.
GoLines ==
    {GoInitOpen, GoClose, GoCtor, GoSetVersion, GoSetVersionComment,
     GoSetGitBranch}

\* The lines of a Python target.
PyDunder(q, lit) == <<"__version__", " ", "=", " ", q>> \o lit \o <<q>>

\* __version__: str
PyAnnotation == <<"__version__", ":", " ", "str">>

PyLines ==
    {PyDunder("'", OldVersion), PyDunder(Q, SnapVersion), PyAnnotation,
     <<"import", " ", "os">>}

\* The lines of a JavaScript/TypeScript target, character by character.
JsField(sp, lit) ==
    <<" ", "V", "e", "r", "s", "i", "o", "n", ":">> \o sp \o <<"'">> \o lit \o <<"'", ",">>

JsLines ==
    {JsField(<<" ">>, OldVersion), JsField(<<" ">>, SnapVersion),
     JsField(<<>>, OldVersion), <<"}", ";">>}

\* The line endings of a file: "\n" everywhere, "\r\n" everywhere, or "\n"
\* with none after the last line.
EolStyles == {"lf", "crlf", "nofinal"}

FileOf(texts, style) ==
    [k \in 1..Len(texts) |->
        [text |-> texts[k],
         eol |-> IF style = "crlf" THEN "\r\n"
                 ELSE IF style = "nofinal" /\ k = Len(texts) THEN ""
                 ELSE "\n"]]

Files(lines, n) ==
    {FileOf(texts, style) :
        texts \in UNION {[1..k -> lines] : k \in 0..n}, style \in EolStyles}

\* Go targets: the import of the package, if there is one, comes first, as
\* the Go grammar has it.
GoFiles(n) ==
    {FileOf(head \o texts, style) :
        head \in {<<>>, <<GoImport>>},
        texts \in UNION {[1..k -> GoLines] : k \in 0..(n - 1)},
        style \in EolStyles}

SyncInit ==
    /\ dialect \in {"go", "py", "js"}
    /\ disk \in CASE dialect = "go" -> GoFiles(MaxGoLines)
                  [] dialect = "py" -> Files(PyLines, MaxLines)
                  [] dialect = "js" -> Files(JsLines, MaxLines)
    /\ pkg = Snapshot
    /\ res = ErrNotRun
    /\ wrote = FALSE
    /\ writes = 0
    /\ scan = GoStart
    /\ before = disk
    /\ runs = 0
    /\ mode = GoWritePerm
    /\ FileIdle
    /\ PmIdle
    /\ input = <<>>
    /\ version = NilVersion
    /\ err = ""
    /\ out = NoString
    /\ op = "none"
    /\ arg = 0
    /\ src = NoString
    /\ old = NilVersion
    /\ nops = 0
    /\ TocIdle

\* err := syncGolangFile(pkg, fp, fi)
SyncGolangFile ==
    /\ dialect = "go"
    /\ runs < MaxRuns
    /\ \E st \in {GoScan(GoStart, ScanLines(disk), pkg)} :
        /\ scan' = st
        /\ res' = GoError(st)
        /\ wrote' = GoWrites(st)
        /\ writes' = IF GoWrites(st) THEN writes + 1 ELSE writes
        /\ disk' = IF GoWrites(st) THEN BufferBytes(st.buffer) ELSE disk
        /\ mode' = IF GoWrites(st) THEN WriteFileMode(TRUE, mode, GoWritePerm) ELSE mode
    /\ before' = disk
    /\ runs' = runs + 1
    /\ UNCHANGED <<dialect, pkg>>
    /\ UNCHANGED <<verVars, fileVars, pmVars, tocVars>>

\* err := syncPythonFile(pkg, fp, fi)
SyncPythonFile ==
    /\ dialect = "py"
    /\ runs < MaxRuns
    /\ \E st \in {PyScan(PyStart, ScanLines(disk), pkg)} :
        /\ scan' = st
        /\ res' = PyError(st)
        /\ wrote' = PyWrites(st, pkg)
        /\ writes' = IF PyWrites(st, pkg) THEN writes + 1 ELSE writes
        /\ disk' = IF PyWrites(st, pkg) THEN BufferBytes(st.buffer) ELSE disk
        /\ mode' = IF PyWrites(st, pkg) THEN WriteFileMode(TRUE, mode, Perm(mode)) ELSE mode
    /\ before' = disk
    /\ runs' = runs + 1
    /\ UNCHANGED <<dialect, pkg>>
    /\ UNCHANGED <<verVars, fileVars, pmVars, tocVars>>

\* err := syncJavascriptFile(pkg, fp, fi)
SyncJavascriptFile ==
    /\ dialect = "js"
    /\ runs < MaxRuns
    /\ \E st \in {JsScan(JsStart, ScanLines(disk), pkg)} :
        /\ scan' = st
        /\ res' = JsError(st)
        /\ wrote' = JsWrites(st, pkg)
        /\ writes' = IF JsWrites(st, pkg) THEN writes + 1 ELSE writes
        /\ disk' = IF JsWrites(st, pkg) THEN BufferBytes(st.buffer) ELSE disk
        /\ mode' = IF JsWrites(st, pkg) THEN WriteFileMode(TRUE, mode, Perm(mode)) ELSE mode
    /\ before' = disk
    /\ runs' = runs + 1
    /\ UNCHANGED <<dialect, pkg>>
    /\ UNCHANGED <<verVars, fileVars, pmVars, tocVars>>

SyncNext ==
    \/ SyncGolangFile
    \/ SyncPythonFile
    \/ SyncJavascriptFile

SpecSync == SyncInit /\ [][SyncNext]_vars

\* The permission bits of a target file: rw-------, rw-r--r--, rwxr-xr-x.
Modes == {384, GoWritePerm, 493}

\* The targets of SyncInit with "\n" after every line, of at most
\* MaxPermLines lines, each with any of the permission bits.
PermInit ==
    /\ dialect \in {"go", "py", "js"}
    /\ disk \in CASE dialect = "go" ->
                       {f \in GoFiles(MaxPermLines) : \A k \in 1..Len(f) : f[k].eol = "\n"}
                  [] dialect = "py" ->
                       {f \in Files(PyLines, MaxPermLines - 1) :
                            \A k \in 1..Len(f) : f[k].eol = "\n"}
                  [] dialect = "js" ->
                       {f \in Files(JsLines, MaxPermLines - 1) :
                            \A k \in 1..Len(f) : f[k].eol = "\n"}
    /\ mode \in Modes
    /\ pkg = Snapshot
    /\ res = ErrNotRun
    /\ wrote = FALSE
    /\ writes = 0
    /\ scan = GoStart
    /\ before = disk
    /\ runs = 0
    /\ FileIdle
    /\ PmIdle
    /\ input = <<>>
    /\ version = NilVersion
    /\ err = ""
    /\ out = NoString
    /\ op = "none"
    /\ arg = 0
    /\ src = NoString
    /\ old = NilVersion
    /\ nops = 0
    /\ TocIdle

SpecPerm == PermInit /\ [][SyncNext]_vars

-----------------------------------------------------------------------------
(* The version file as a state machine, in the order of                    *)
(* TestVersionedFileOperations: a caller loads a Version from a file,      *)
(* may apply an increment and writes it back; or the command is run with  *)
(* increment flags (main.go:426-471).                                      *)

\* The lines of a version file.
VersionLines ==
    {V123, <<" ">> \o V123 \o <<"\t">>, <<>>, <<" ">>, <<"1", ".", "2">>,
     String([Major |-> MaxUint, Minor |-> 0, Patch |-> 9])}

\* The version files of at most n lines; a last line without a line
\* ending is not empty.
VersionFiles(n) ==
    {f \in {FileOf(texts, style) :
                texts \in UNION {[1..k -> VersionLines] : k \in 0..n},
                style \in EolStyles} :
        f = <<>> \/ f[Len(f)].text # <<>> \/ f[Len(f)].eol # ""}

FileInit ==
    /\ files \in {[q \in Paths |-> IF q = p THEN f ELSE CanonFile] :
                      p \in Paths, f \in VersionFiles(MaxVersionLines) \cup {NoFile}}
    /\ oldFiles = files
    /\ path = ""
    /\ flags = NoFlags
    /\ exit = -1
    /\ pc = "idle"
    /\ git = TRUE
    /\ input = <<>>
    /\ version = NilVersion
    /\ err = ""
    /\ out = NoString
    /\ op = "none"
    /\ arg = 0
    /\ src = NoString
    /\ old = NilVersion
    /\ nops = 0
    /\ SyncIdle
    /\ PmIdle
    /\ TocIdle

\* version, err := NewVersionFromFile(p)
NewVersionFromFileCall(p) ==
    /\ op = "none"
    /\ path' = p
    /\ version' = NewVersionFromFile(files, p).version
    /\ err' = NewVersionFromFile(files, p).err
    /\ op' = "NewVersionFromFile"
    /\ old' = version
    /\ oldFiles' = files
    /\ UNCHANGED <<input, out, arg, src, nops, files, flags, exit, pc, git>>
    /\ UNCHANGED <<syncVars, pmVars, tocVars>>

\* err := version.UpdateFile()
UpdateFileCall ==
    /\ version # NilVersion
    /\ op \notin {"UpdateFile", "main"}
    /\ files' = UpdateFile(files, version)
    /\ oldFiles' = files
    /\ op' = "UpdateFile"
    /\ old' = version
    /\ UNCHANGED <<input, version, err, out, arg, src, nops, path, flags, exit, pc, git>>
    /\ UNCHANGED <<syncVars, pmVars, tocVars>>

\* One run of the command with -source p and the increment flags fl: the
\* version is loaded, incremented and, if a flag is set, written back.
Main(p, fl) ==
    /\ op = "none"
    /\ path' = p
    /\ flags' = fl
    /\ op' = "main"
    /\ oldFiles' = files
    /\ LET r == NewVersionFromFile(files, p) IN
        /\ err' = r.err
        /\ old' = r.version
        /\ IF r.err # ""
           THEN version' = NilVersion /\ files' = files /\ exit' = 1
           ELSE /\ version' = MainIncrements(r.version, fl)
                /\ files' = IF fl.major \/ fl.minor \/ fl.patch
                            THEN UpdateFile(files, MainIncrements(r.version, fl))
                            ELSE files
                /\ exit' = 0
    /\ UNCHANGED <<input, out, arg, src, nops, pc, git>>
    /\ UNCHANGED <<syncVars, pmVars, tocVars>>

\* One run of the command with -init and -source p.
MainInit(p) ==
    /\ op \in {"none", "init"}
    /\ path' = p
    /\ op' = "init"
    /\ oldFiles' = files
    /\ files' = InitFile(files, p).files
    /\ exit' = InitFile(files, p).exit
    /\ UNCHANGED <<input, version, err, out, arg, src, old, nops, flags, pc, git>>
    /\ UNCHANGED <<syncVars, pmVars, tocVars>>

FileNext ==
    \/ \E p \in Paths \cup {""} : NewVersionFromFileCall(p)
    \/ (op = "NewVersionFromFile" /\ IncrementMajor(1))
    \/ (op = "NewVersionFromFile" /\ IncrementMinor(1))
    \/ (op = "NewVersionFromFile" /\ IncrementPatch(1))
    \/ UpdateFileCall
    \/ \E p \in Paths, fl \in [major : BOOLEAN, minor : BOOLEAN, patch : BOOLEAN,
                               factor : Steps] : Main(p, fl)
    \/ \E p \in Paths : MainInit(p)

SpecFile == FileInit /\ [][FileNext]_vars

-----------------------------------------------------------------------------
(* The PackageManager as a state machine, in the order of TestAppPackage:  *)
(* a caller constructs it, calls setters and renders a banner.             *)

\* The values and defaults handed to the setters.
Words == {<<>>, <<"1.0.1">>, <<"master">>}

PmInit ==
    /\ pm \in {[NewPackageManagerOf(<<"versioned">>) EXCEPT
                    !.OperatingSystem = o, !.Architecture = a] :
                  o \in {<<>>, <<"linux">>}, a \in {<<>>, <<"amd64">>}}
    /\ pmOld = pm
    /\ pmOp = NoCall
    /\ banner = NoString
    /\ input = <<>>
    /\ version = NilVersion
    /\ err = ""
    /\ out = NoString
    /\ op = "none"
    /\ arg = 0
    /\ src = NoString
    /\ old = NilVersion
    /\ nops = 0
    /\ SyncIdle
    /\ FileIdle
    /\ TocIdle

\* p.Set<Field>(v, d) for the setter called name.
SetCall(name, v, d) ==
    /\ banner = NoString
    /\ pm' = Set(pm, name, v, d)
    /\ pmOld' = pm
    /\ pmOp' = [name |-> name, v |-> v, d |-> d]
    /\ UNCHANGED banner
    /\ UNCHANGED <<verVars, syncVars, fileVars, tocVars>>

SetVersion(v, d) == SetCall("SetVersion", v, d)

SetGitBranch(v, d) == SetCall("SetGitBranch", v, d)

SetGitCommit(v, d) == SetCall("SetGitCommit", v, d)

SetBuildUser(v, d) == SetCall("SetBuildUser", v, d)

SetBuildDate(v, d) == SetCall("SetBuildDate", v, d)

\* banner := p.Banner()
BannerCall ==
    /\ pmOp.name \notin {"Banner", "ShortBanner"}
    /\ banner' = Banner(pm)
    /\ pmOp' = [name |-> "Banner", v |-> <<>>, d |-> <<>>]
    /\ pmOld' = pm
    /\ UNCHANGED pm
    /\ UNCHANGED <<verVars, syncVars, fileVars, tocVars>>

\* banner := p.ShortBanner()
ShortBannerCall ==
    /\ pmOp.name \notin {"Banner", "ShortBanner"}
    /\ banner' = ShortBanner(pm)
    /\ pmOp' = [name |-> "ShortBanner", v |-> <<>>, d |-> <<>>]
    /\ pmOld' = pm
    /\ UNCHANGED pm
    /\ UNCHANGED <<verVars, syncVars, fileVars, tocVars>>

PmNext ==
    \/ \E v, d \in Words : SetVersion(v, d)
    \/ \E v, d \in Words : SetGitBranch(v, d)
    \/ \E v, d \in Words : SetGitCommit(v, d)
    \/ \E v, d \in Words : SetBuildUser(v, d)
    \/ \E v, d \in Words : SetBuildDate(v, d)
    \/ BannerCall
    \/ ShortBannerCall

SpecPm == PmInit /\ [][PmNext]_vars

-----------------------------------------------------------------------------
(* A run of the command with -sync, with or without increment flags        *)
(* (main.go:420-531), in two steps: the version file is loaded,            *)
(* incremented and written; then the snapshot is built and the target is   *)
(* synced.  The process exits after the second step, or in the first when  *)
(* the version file does not load.                                         *)

ErrGit == "Error executing git"
ErrExt == "unsupported file extension"

\* The snapshot with the version as it was loaded.
PkgOf_Loaded(v, oldVersion, branch, commit) ==
    [Version |-> String(oldVersion), Branch |-> branch, Commit |-> commit]

\* pkg of main: the version as it is after the increments, and the branch
\* and commit git reported.
PkgOf(v, oldVersion, branch, commit) ==
    [Version |-> String(v), Branch |-> branch, Commit |-> commit]

\* The sync function the extension selects, applied to the target: what it
\* returns, whether it writes, the target afterwards and its scanner's
\* variables.
SyncOutcome(d, file, p) ==
    CASE d = "go" ->
            LET st == GoScan(GoStart, ScanLines(file), p) IN
            [res |-> GoError(st), wrote |-> GoWrites(st), scan |-> st,
             disk |-> IF GoWrites(st) THEN BufferBytes(st.buffer) ELSE file]
      [] d = "py" ->
            LET st == PyScan(PyStart, ScanLines(file), p) IN
            [res |-> PyError(st), wrote |-> PyWrites(st, p), scan |-> st,
             disk |-> IF PyWrites(st, p) THEN BufferBytes(st.buffer) ELSE file]
      [] d = "js" ->
            LET st == JsScan(JsStart, ScanLines(file), p) IN
            [res |-> JsError(st), wrote |-> JsWrites(st, p), scan |-> st,
             disk |-> IF JsWrites(st, p) THEN BufferBytes(st.buffer) ELSE file]
      [] OTHER ->
            [res |-> ErrExt, wrote |-> FALSE, scan |-> GoStart, disk |-> file]

\* The targets of the runs: of every dialect and of an extension the
\* command does not support, with "\n" after every line.
CliInit ==
    /\ dialect \in {"go", "py", "js", "txt"}
    /\ disk \in CASE dialect = "go" ->
                       {f \in GoFiles(MaxPermLines) : \A k \in 1..Len(f) : f[k].eol = "\n"}
                  [] dialect = "py" ->
                       {f \in Files(PyLines, MaxPermLines - 2) :
                            \A k \in 1..Len(f) : f[k].eol = "\n"}
                  [] dialect = "js" ->
                       {f \in Files(JsLines, MaxPermLines - 2) :
                            \A k \in 1..Len(f) : f[k].eol = "\n"}
                  [] dialect = "txt" ->
                       {f \in Files(PyLines, MaxPermLines - 3) :
                            \A k \in 1..Len(f) : f[k].eol = "\n"}
    /\ git \in BOOLEAN
    /\ files \in {[q \in Paths |-> f] : f \in {CanonFile, <<>>}}
    /\ oldFiles = files
    /\ path = ""
    /\ flags = NoFlags
    /\ exit = -1
    /\ pc = "idle"
    /\ mode = GoWritePerm
    /\ pkg = Snapshot
    /\ res = ErrNotRun
    /\ wrote = FALSE
    /\ writes = 0
    /\ scan = GoStart
    /\ before = disk
    /\ runs = 0
    /\ PmIdle
    /\ input = <<>>
    /\ version = NilVersion
    /\ err = ""
    /\ out = NoString
    /\ op = "none"
    /\ arg = 0
    /\ src = NoString
    /\ old = NilVersion
    /\ nops = 0
    /\ TocIdle

\* The first step: main.go:420-471.
MainUpdate(p, fl) ==
    /\ op = "none"
    /\ pc = "idle"
    /\ path' = p
    /\ flags' = fl
    /\ op' = "main"
    /\ oldFiles' = files
    /\ LET r == NewVersionFromFile(files, p) IN
        /\ err' = r.err
        /\ old' = r.version
        /\ IF r.err # ""
           THEN version' = NilVersion /\ files' = files /\ exit' = 1 /\ pc' = "exited"
           ELSE /\ version' = MainIncrements(r.version, fl)
                /\ files' = IF fl.major \/ fl.minor \/ fl.patch
                            THEN UpdateFile(files, MainIncrements(r.version, fl))
                            ELSE files
                /\ exit' = exit
                /\ pc' = "updated"
    /\ UNCHANGED <<input, out, arg, src, nops, git>>
    /\ UNCHANGED <<syncVars, pmVars, tocVars>>

\* The second step: main.go:473-531.  The git commands fail or report the
\* commit and the branch; the sync function of the extension runs.
MainSync ==
    /\ pc = "updated"
    /\ pc' = "exited"
    /\ op' = "sync"
    /\ before' = disk
    /\ IF ~git
       THEN /\ res' = ErrGit
            /\ exit' = 1
            /\ UNCHANGED <<disk, pkg, wrote, writes, scan, runs, mode>>
       ELSE /\ pkg' = PkgOf(version, old, Snapshot.Branch, Snapshot.Commit)
            /\ \E o \in {SyncOutcome(dialect, disk,
                            PkgOf(version, old, Snapshot.Branch, Snapshot.Commit))} :
                 /\ res' = o.res
                 /\ wrote' = o.wrote
                 /\ writes' = IF o.wrote THEN writes + 1 ELSE writes
                 /\ disk' = o.disk
                 /\ scan' = o.scan
                 /\ exit' = IF o.res = "" THEN 0 ELSE IF o.res = Panic THEN 2 ELSE 1
            /\ runs' = runs + 1
            /\ mode' = mode
    /\ UNCHANGED <<dialect, files, oldFiles, path, flags, git>>
    /\ UNCHANGED <<input, version, err, out, arg, src, old, nops>>
    /\ UNCHANGED <<pmVars, tocVars>>

CliNext ==
    \/ \E fl \in [major : BOOLEAN, minor : BOOLEAN, patch : BOOLEAN, factor : {1}] :
            MainUpdate("VERSION", fl)
    \/ MainSync

SpecCli == CliInit /\ [][CliNext]_vars

-----------------------------------------------------------------------------
(* The TableOfContents as a state machine, in the order of                 *)
(* TestNewTableOfContents: a caller builds a TableOfContents, adds         *)
(* headings and renders it. A panic ends the run.                          *)

Pounds(d) == [k \in 1..d |-> "#"]

\* The strings handed to AddHeading: headings of every depth, the empty
\* string, a line without a pound sign, a title that ends in a number, a
\* heading with white space before the pound sign, a heading without a space
\* after the pound sign, and a title with an upper-case letter and a
\* character outside allowedLinkChars.
Headings ==
    {Pounds(d) \o <<" ", "a">> : d \in 1..MaxDepth}
        \cup {<<>>,
              <<"a", " ", "b">>,
              <<"#", " ", "a", " ", "1">>,
              <<" ", "#", " ", "a">>,
              <<"#", "a">>,
              <<"#", " ", "A", "~">>}

TocInit ==
    /\ TocIdle
    /\ input = <<>>
    /\ version = NilVersion
    /\ err = ""
    /\ out = NoString
    /\ op = "none"
    /\ arg = 0
    /\ src = NoString
    /\ old = NilVersion
    /\ nops = 0
    /\ SyncIdle
    /\ FileIdle
    /\ PmIdle

AddHeadingCall(s) ==
    /\ tocErr \notin TocPanics
    /\ Len(toc.entries) < MaxHeadings
    /\ \E r \in {AddHeading(toc, s)} :
            /\ toc' = r.toc
            /\ tocErr' = r.err
    /\ tocOld' = toc
    /\ tocOp' = [name |-> "AddHeading", s |-> s]
    /\ lastRendered' = NoString
    /\ UNCHANGED <<rendered, links, renders>>
    /\ UNCHANGED <<verVars, syncVars, fileVars, pmVars>>

ToStringCall ==
    /\ tocErr \notin TocPanics
    /\ renders < MaxRenders
    /\ \E r \in {TocToString(toc)} :
            /\ toc' = r.toc
            /\ rendered' = r.text
            /\ links' = r.links
            /\ tocErr' = IF r.err = "" THEN tocErr ELSE r.err
    /\ tocOld' = toc
    /\ tocOp' = [name |-> "ToString", s |-> <<>>]
    /\ lastRendered' = IF tocOp.name = "ToString" THEN rendered ELSE NoString
    /\ renders' = renders + 1
    /\ UNCHANGED <<verVars, syncVars, fileVars, pmVars>>

TocNext ==
    \/ \E s \in Headings : AddHeadingCall(s)
    \/ ToStringCall

SpecToc == TocInit /\ [][TocNext]_vars

-----------------------------------------------------------------------------
(* Properties of the version calculus.                                     *)

\* C1: IncrementMajor(i) sets major to a+1 (in the arithmetic of the
\* component type, which wraps at the largest value) and resets minor and
\* patch to 0, for every version and every step argument i.
C1_IncrementMajor ==
    op = "IncrementMajor" =>
        /\ version.Major = (old.Major + 1) % UintMod
        /\ version.Minor = 0
        /\ version.Patch = 0

\* An IncrementMajor with a step other than 1 on a version whose minor and
\* patch are not 0.
C1_Witness ==
    /\ op = "IncrementMajor"
    /\ arg = 2
    /\ old.Minor > 0
    /\ old.Patch > 0
    /\ version.Major = old.Major + 1

\* C2: IncrementMinor(i) sets minor to b+1, resets patch to 0 and leaves
\* major equal to a, for every version and every step argument i.
C2_IncrementMinor ==
    op = "IncrementMinor" =>
        /\ version.Minor = (old.Minor + 1) % UintMod
        /\ version.Patch = 0
        /\ version.Major = old.Major

\* An IncrementMinor with step 0 on a version whose patch is not 0.
C2_Witness ==
    /\ op = "IncrementMinor"
    /\ arg = 0
    /\ old.Patch > 0
    /\ old.Major > 0
    /\ version.Minor = old.Minor + 1

\* C3: IncrementPatch(i) increases patch by exactly 1 whatever the step
\* argument i is, and leaves major, minor and the file name unchanged.
C3_IncrementPatch ==
    op = "IncrementPatch" =>
        /\ version.Patch = (old.Patch + 1) % UintMod
        /\ version.Major = old.Major
        /\ version.Minor = old.Minor
        /\ version.FileName = old.FileName

\* An IncrementPatch with a step greater than 1 on a version whose major and
\* minor are not 0.
C3_Witness ==
    /\ op = "IncrementPatch"
    /\ arg = 2
    /\ old.Major > 0
    /\ old.Minor > 0
    /\ version.Patch = old.Patch + 1

\* The positions of the separator in s.
DotsOf(s) == {k \in 1..Len(s) : s[k] = "."}

\* The n-th of the three fields of a string with exactly two separators.
FieldOf(s, n) ==
    LET d1 == CHOOSE k \in DotsOf(s) : \A h \in DotsOf(s) : k <= h
        d2 == CHOOSE k \in DotsOf(s) : \A h \in DotsOf(s) : h <= k
    IN  CASE n = 1 -> SubSeq(s, 1, d1 - 1)
          [] n = 2 -> SubSeq(s, d1 + 1, d2 - 1)
          [] n = 3 -> SubSeq(s, d2 + 1, Len(s))

\* t spells an unsigned integer of the component type in decimal.
IsUintText(t) ==
    /\ t # <<>>
    /\ \A k \in 1..Len(t) : IsDigit(t[k])
    /\ DecVal(t) <= MaxUint

\* The error of the first failing check, in the order empty, format, major,
\* minor, patch ("" when none fails).
FirstFailingCheck(s) ==
    CASE s = <<>> -> ErrEmpty
      [] s # <<>> /\ Cardinality(DotsOf(s)) # 2 -> ErrFormat
      [] OTHER ->
            IF ~IsUintText(FieldOf(s, 1)) THEN ErrMajor
            ELSE IF ~IsUintText(FieldOf(s, 2)) THEN ErrMinor
            ELSE IF ~IsUintText(FieldOf(s, 3)) THEN ErrPatch
            ELSE ""

\* C4: NewVersion(s) fails with the error of the first failing check in the
\* order empty input, not three dot-separated parts, major, minor, patch; it
\* succeeds exactly when no check fails and returns no Version on failure.
C4_NewVersionErrors ==
    op = "NewVersion" =>
        /\ err = FirstFailingCheck(src)
        /\ (err # "") <=> (version = NilVersion)

\* A string whose major and patch parts both fail to parse is rejected with
\* the error of the major part.
C4_Witness ==
    /\ op = "NewVersion"
    /\ Cardinality(DotsOf(src)) = 2
    /\ ~IsUintText(FieldOf(src, 1))
    /\ IsUintText(FieldOf(src, 2))
    /\ ~IsUintText(FieldOf(src, 3))
    /\ err = ErrMajor
    /\ version = NilVersion

\* t is the decimal numeral of n, without leading zeros.
IsDecimalOf(t, n) ==
    /\ IsUintText(t)
    /\ DecVal(t) = n
    /\ (Len(t) > 1 => t[1] # "0")

\* C5: parsing the rendering of a parsed Version succeeds and yields the
\* same major, minor and patch; String() is exactly
\* "{major}.{minor}.{patch}" in decimal.
C5_RoundTrip ==
    /\ (op = "NewVersion" /\ src = out) =>
            /\ err = ""
            /\ version # NilVersion
            /\ version.Major = old.Major
            /\ version.Minor = old.Minor
            /\ version.Patch = old.Patch
    /\ (op = "String") =>
            /\ Cardinality(DotsOf(out)) = 2
            /\ IsDecimalOf(FieldOf(out, 1), version.Major)
            /\ IsDecimalOf(FieldOf(out, 2), version.Minor)
            /\ IsDecimalOf(FieldOf(out, 3), version.Patch)

\* The rendering of a Version parsed from a string with a leading zero is
\* parsed again: the rendering differs from the input, the Version does not.
C5_Witness ==
    /\ op = "NewVersion"
    /\ src = out
    /\ nops = 0
    /\ src # input
    /\ err = ""
    /\ version.Minor # version.Patch

-----------------------------------------------------------------------------
(* Properties of the sync.                                                 *)

\* The structure of a Go target as the scanner reads it, line by line.
IsPkgLine(line) == Contains(line, pkgName)

IsInitOpen(line) == ~IsPkgLine(line) /\ Contains(line, FuncInit)

IsClose(line) == ~IsPkgLine(line) /\ ~IsInitOpen(line) /\ HasPrefix(line, <<"}">>)

IsCtor(line) ==
    /\ ~IsPkgLine(line) /\ ~IsInitOpen(line) /\ ~IsClose(line)
    /\ Contains(line, NewPackageManager)

\* Line k lies in the body of the first init function: after its opening
\* line and before the next line that closes it or opens another.
InInitBody(texts, k) ==
    \E j \in 1..(k - 1) :
        /\ IsInitOpen(texts[j])
        /\ \A h \in 1..(j - 1) : ~IsInitOpen(texts[h])
        /\ \A h \in (j + 1)..k : ~IsInitOpen(texts[h]) /\ ~IsClose(texts[h])

\* Line k lies in the validated region: in the body of the first init
\* function and after a constructor call in that body.
Validated(texts, k) ==
    /\ InInitBody(texts, k)
    /\ ~IsPkgLine(texts[k])
    /\ ~IsCtor(texts[k])
    /\ \E c \in 1..(k - 1) : InInitBody(texts, c) /\ IsCtor(texts[c])

\* Line k is a Set<Field> call of a recognized field in the validated region.
RecognizedSet(texts, k, fields) ==
    /\ Validated(texts, k)
    /\ SetPositions(texts[k]) # {}
    /\ FindStringSubmatch(texts[k]).m2 \in fields

SnapshotOf(p, field) ==
    CASE field = "Version" -> p.Version
      [] field = "GitBranch" -> p.Branch
      [] field = "GitCommit" -> p.Commit

\* The line with the string literal of its Set<Field> call (from the quote
\* after ", " to the next quote) holding the snapshot's value.
LiteralReplaced(line, p) ==
    LET s == CHOOSE x \in SetPositions(line) : \A y \in SetPositions(line) : y <= x
        e == CHOOSE x \in (s + 7)..Len(line) :
                 line[x] = Q /\ \A y \in (s + 7)..(x - 1) : line[y] # Q
    IN  SubSeq(line, 1, s + 6) \o SnapshotOf(p, line[s + 1]) \o SubSeq(line, e, Len(line))

\* The file with the literals of the recognized Set<Field> calls of the
\* validated region replaced, and every other byte as it was.
LiteralsReplaced(file, p) ==
    [k \in 1..Len(file) |->
        IF RecognizedSet(ScanLines(file), k, {"Version", "GitBranch", "GitCommit"})
        THEN [file[k] EXCEPT !.text = LiteralReplaced(@, p)]
        ELSE file[k]]

\* C6: after a Go sync of a file with a SetVersion(x, "old") call in the
\* validated region and old different from the snapshot version, the file
\* on disk is the original with that literal (and those of the other
\* recognized fields) replaced and every other byte identical.  Stated for
\* files whose lines all end in "\n".
C6_GoSyncReplacesOnlyLiteral ==
    ( /\ dialect = "go"
      /\ runs = 1
      /\ \A k \in 1..Len(before) : before[k].eol = "\n"
      /\ \E k \in 1..Len(before) :
            /\ RecognizedSet(ScanLines(before), k, {"Version"})
            /\ LiteralReplaced(before[k].text, pkg) # before[k].text
      /\ \E k \in 1..Len(before) : IsPkgLine(before[k].text) )
    => disk = LiteralsReplaced(before, pkg)

StructuralErrors == {ErrPkgNotFound, ErrPkgNotInit, ErrGoVersion, ErrPyVersion, ErrJsVersion}

\* C8: whenever a sync returns a structural-mismatch error the file on disk
\* is as it was before the sync and no write happened, replacements in the
\* buffer or not.
C8_ErrorLeavesFile ==
    (runs >= 1 /\ res \in StructuralErrors) => (disk = before /\ ~wrote)

\* A Go sync fails for want of a SetVersion call after it replaced a
\* GitBranch literal in its buffer.
C8_Witness ==
    /\ dialect = "go"
    /\ runs = 1
    /\ res = ErrGoVersion
    /\ scan.rewrite
    /\ \E k \in 1..Len(before) : scan.buffer[k] # before[k].text
    /\ disk = before

\* What the Go sync is to return for a file, from the file's structure.
GoExpected(texts) ==
    IF ~\E k \in 1..Len(texts) : IsPkgLine(texts[k]) THEN ErrPkgNotFound
    ELSE IF ~\E k \in 1..Len(texts) : InInitBody(texts, k) /\ IsCtor(texts[k])
    THEN ErrPkgNotInit
    ELSE IF ~\E k \in 1..Len(texts) : RecognizedSet(texts, k, {"Version"})
    THEN ErrGoVersion
    ELSE ""

\* C9 for the Go and Python dialects.
C9_GoPy ==
    /\ (dialect = "go" /\ runs >= 1) => res = GoExpected(ScanLines(before))
    /\ (dialect = "py" /\ runs >= 1) =>
            ((res = ErrPyVersion) <=>
                ~\E k \in 1..Len(before) : HasPrefix(before[k].text, versionDunder))

\* The JS/TS sync fails with VersionFieldNotFound exactly when no line
\* contains marker.
C9_Js(marker) ==
    (dialect = "js" /\ runs >= 1) =>
        ((res = ErrJsVersion) <=>
            ~\E k \in 1..Len(before) : Contains(before[k].text, marker))

\* C9 as stated: the Go sync reports PackageNotReferenced, else
\* PackageNotInitialized, else VersionFieldNotFound, else succeeds; the
\* Python sync fails exactly when no line starts with __version__ and the
\* JS/TS sync exactly when no line contains "Version:".
C9_AsStated == C9_GoPy /\ C9_Js(<<"V", "e", "r", "s", "i", "o", "n", ":">>)

\* C9 as amended: the same, with the JS/TS marker being "Version: ", the
\* colon followed by a space.
C9_SyncErrors == C9_GoPy /\ C9_Js(JsMarker)

\* A JS/TS sync fails with VersionFieldNotFound on a file with a line
\* that holds "Version:" without a space after the colon.
C9_Witness ==
    /\ dialect = "js"
    /\ runs = 1
    /\ res = ErrJsVersion
    /\ \E k \in 1..Len(before) :
            Contains(before[k].text, <<"V", "e", "r", "s", "i", "o", "n", ":">>)

\* C10: a Go sync changes a line only if it is a Set<Field> call in the
\* validated region (in the body of the first init function, one level
\* deep, after a constructor call), and writes only if the file references
\* the package; every other line is copied unchanged.
C10_GoValidatedRegion ==
    (dialect = "go" /\ runs >= 1) =>
        /\ Len(scan.buffer) = Len(before)
        /\ \A k \in 1..Len(before) :
                scan.buffer[k] # before[k].text
                    => RecognizedSet(ScanLines(before), k,
                                     {"Version", "GitBranch", "GitCommit"})
        /\ wrote => \E k \in 1..Len(before) : IsPkgLine(before[k].text)

\* A Go sync writes the file with one SetVersion call rewritten and an
\* identical call before the constructor copied unchanged.
C10_Witness ==
    /\ dialect = "go"
    /\ runs = 1
    /\ wrote
    /\ \E j, k \in 1..Len(before) :
            /\ j < k
            /\ before[j].text = GoSetVersion
            /\ before[k].text = GoSetVersion
            /\ InInitBody(ScanLines(before), j)
            /\ disk[j].text = GoSetVersion
            /\ disk[k].text # GoSetVersion

\* The value of a Python line "__version__ ... = value", quotes stripped.
PyValue(line) == Strip(TrimSpace(AfterSep(line, "=")), {"'", Q})

\* Line is a __version__ assignment whose value differs from the snapshot's.
PyDiffers(line, p) ==
    HasPrefix(line, versionDunder) /\ HasSep(line, "=") /\ PyValue(line) # p.Version

\* C11: after a Python sync that returned success on a file with a line
\* that starts with __version__ and whose value (quotes stripped) differs
\* from the snapshot version, the file was written, every such line reads
\* __version__ = '<snapshot version>', and every other line has its content
\* and its place.
C11_PyRewritesDifferingLine ==
    ( /\ dialect = "py"
      /\ runs >= 1
      /\ res = ""
      /\ \E k \in 1..Len(before) : PyDiffers(before[k].text, pkg) )
    => /\ wrote
       /\ Len(disk) = Len(before)
       /\ \A k \in 1..Len(before) :
            disk[k].text = IF PyDiffers(before[k].text, pkg)
                           THEN <<"__version__", " ", "=", " ", "'">>
                                    \o pkg.Version \o <<"'">>
                           ELSE before[k].text

\* The value of a JS/TS line "... Version: value,", comma and quotes stripped.
JsValue(line) == TrimSpace(Strip(TrimSpace(AfterSep(line, ":")), {",", "'", Q}))

\* Every recognized field of the file holds the snapshot's value, and
\* there is a recognized Version field.
FieldsCurrent(d, texts, p) ==
    CASE d = "go" ->
            /\ GoExpected(texts) = ""
            /\ \A k \in 1..Len(texts) :
                 RecognizedSet(texts, k, {"Version", "GitBranch", "GitCommit"})
                    => FindStringSubmatch(texts[k]).m3
                          = SnapshotOf(p, FindStringSubmatch(texts[k]).m2)
      [] d = "py" ->
            /\ \E k \in 1..Len(texts) : HasPrefix(texts[k], versionDunder)
            /\ \A k \in 1..Len(texts) :
                 HasPrefix(texts[k], versionDunder)
                    => HasSep(texts[k], "=") /\ PyValue(texts[k]) = p.Version
      [] d = "js" ->
            /\ \E k \in 1..Len(texts) : Contains(texts[k], JsMarker)
            /\ \A k \in 1..Len(texts) :
                 Contains(texts[k], JsMarker) => JsValue(texts[k]) = p.Version

\* C12: in every dialect, a sync of a file whose recognized fields (as the
\* scanner reads them) all hold the snapshot's values returns success,
\* performs no write and leaves the file as it was.
C12_CurrentFileNoWrite ==
    (runs >= 1 /\ FieldsCurrent(dialect, ScanLines(before), pkg))
        => (res = "" /\ ~wrote /\ disk = before)

\* A Go sync has run with success and without a write on a file whose
\* SetVersion and SetGitBranch literals hold the snapshot's values.
C12_Witness ==
    /\ dialect = "go"
    /\ runs = 2
    /\ res = ""
    /\ ~wrote
    /\ FieldsCurrent("go", ScanLines(before), pkg)
    /\ \E j, k \in 1..Len(before) :
            /\ RecognizedSet(ScanLines(before), j, {"Version"})
            /\ RecognizedSet(ScanLines(before), k, {"GitBranch"})

\* Line k of the file is matched by a rewrite rule of the dialect d.
Matched(d, texts, k) ==
    CASE d = "go" -> RecognizedSet(texts, k, {"Version", "GitBranch", "GitCommit"})
      [] d = "py" -> HasPrefix(texts[k], versionDunder)
      [] d = "js" -> Contains(texts[k], JsMarker)

\* C13: when a sync has written the file, every line that no rewrite rule
\* matches is in the file as it was, its line ending included (CRLF is
\* still CRLF, a last line without a newline is still without one).
C13_UnmatchedLinesVerbatim ==
    (runs >= 1 /\ wrote) =>
        /\ Len(disk) = Len(before)
        /\ \A k \in 1..Len(before) :
              ~Matched(dialect, ScanLines(before), k) => disk[k] = before[k]

-----------------------------------------------------------------------------
(* Properties of the version file.                                         *)

\* The path NewVersionFromFile reads for the argument p.
PathRead(p) == IF p = "" THEN "VERSION" ELSE p

\* The first line of a file, trimmed; "" for the empty file.
FirstLine(file) == IF file = <<>> THEN <<>> ELSE TrimSpace(file[1].text)

\* C15: NewVersionFromFile(path) reads "VERSION" when path is empty; its
\* result is that of parsing the first line of the file, trimmed, whatever
\* the later lines are; and the Version it returns is bound to the path it
\* read.
C15_NewVersionFromFile ==
    (op = "NewVersionFromFile" /\ files[PathRead(path)] # NoFile) =>
        LET r == NewVersion(FirstLine(files[PathRead(path)])) IN
            /\ err = r.err
            /\ r.err # "" => version = NilVersion
            /\ r.err = "" =>
                 /\ version.Major = r.version.Major
                 /\ version.Minor = r.version.Minor
                 /\ version.Patch = r.version.Patch
                 /\ version.FileName = PathRead(path)

\* NewVersionFromFile("") has loaded 1.2.3 from a VERSION file whose first
\* line has white space around the version and whose second line is no
\* version.
C15_Witness ==
    /\ op = "NewVersionFromFile"
    /\ path = ""
    /\ err = ""
    /\ version.FileName = "VERSION"
    /\ String(version) = V123
    /\ Len(files["VERSION"]) = 2
    /\ files["VERSION"][1].text # V123
    /\ NewVersion(files["VERSION"][2].text).err # ""

\* The lines of a file that are not blank.
NonBlank(file) == {k \in 1..Len(file) : TrimSpace(file[k].text) # <<>>}

\* C16 as stated: a file whose first non-empty line, trimmed, is a valid
\* version string loads with success, blank lines before it or not.
C16_FirstNonEmptyLine ==
    ( /\ op = "NewVersionFromFile"
      /\ files[PathRead(path)] # NoFile
      /\ NonBlank(files[PathRead(path)]) # {}
      /\ LET file == files[PathRead(path)]
             k == CHOOSE x \in NonBlank(file) : \A y \in NonBlank(file) : x <= y
         IN  NewVersion(TrimSpace(file[k].text)).err = "" )
    => (err = "" /\ version # NilVersion)

\* C16 as amended: the line read is the first line of the file, blank or
\* not; a file whose first line is blank fails to load with "empty string",
\* whatever follows.
C16_BlankFirstLineFails ==
    ( /\ op = "NewVersionFromFile"
      /\ files[PathRead(path)] # NoFile
      /\ FirstLine(files[PathRead(path)]) = <<>> )
    => (err = ErrEmpty /\ version = NilVersion)

\* NewVersionFromFile has failed on a file with a blank first line and
\* 1.2.3 on its second line.
C16_Witness ==
    /\ op = "NewVersionFromFile"
    /\ err = ErrEmpty
    /\ Len(files[PathRead(path)]) = 2
    /\ TrimSpace(files[PathRead(path)][1].text) = <<>>
    /\ files[PathRead(path)][2].text = V123

\* The file holds exactly a canonical version string: one line without a
\* line ending that String() of its parse gives back.
IsCanonical(file) ==
    /\ file # NoFile
    /\ Len(file) = 1
    /\ file[1].eol = ""
    /\ NewVersion(file[1].text).err = ""
    /\ String(NewVersion(file[1].text).version) = file[1].text

\* C17: after UpdateFile the bound file holds exactly String(), whatever
\* it held before, and the other files are as they were; a Version loaded
\* from a file that holds exactly a canonical version string and written
\* back at once leaves the file byte-identical.
C17_UpdateFile ==
    op = "UpdateFile" =>
        /\ files = [oldFiles EXCEPT
                       ![version.FileName] = <<[text |-> String(version), eol |-> ""]>>]
        /\ (nops = 0 /\ IsCanonical(oldFiles[version.FileName])) => files = oldFiles

\* UpdateFile has replaced a file of two lines by the one version string.
C17_Witness ==
    /\ op = "UpdateFile"
    /\ version.FileName = "PROP_VERSION"
    /\ Len(oldFiles["PROP_VERSION"]) = 2
    /\ oldFiles["PROP_VERSION"][2].text = V123
    /\ oldFiles["PROP_VERSION"][2].eol = "\r\n"
    /\ files["PROP_VERSION"] = <<[text |-> String(version), eol |-> ""]>>

-----------------------------------------------------------------------------
(* Properties of the PackageManager.                                       *)

\* The field of the PackageManager a setter is for.
FieldOfSetter(name) ==
    CASE name = "SetVersion" -> "Version"
      [] name = "SetGitBranch" -> "Branch"
      [] name = "SetGitCommit" -> "Commit"
      [] name = "SetBuildUser" -> "User"
      [] name = "SetBuildDate" -> "Date"

\* C18: after Set<Field>(v, d) the field is v if v is not empty and d
\* otherwise, so it is empty only if both are empty, and every other field
\* is as it was.
C18_Setters ==
    pmOp.name \in {"SetVersion", "SetGitBranch", "SetGitCommit", "SetBuildUser",
                   "SetBuildDate"} =>
        /\ pmOp.v # <<>> => pm[FieldOfSetter(pmOp.name)] = pmOp.v
        /\ pmOp.v = <<>> => pm[FieldOfSetter(pmOp.name)] = pmOp.d
        /\ pm[FieldOfSetter(pmOp.name)] = <<>> => (pmOp.v = <<>> /\ pmOp.d = <<>>)
        /\ \A g \in DOMAIN pm \ {FieldOfSetter(pmOp.name)} : pm[g] = pmOld[g]

\* SetGitCommit("", d) has replaced a commit that was set by the default d.
C18_Witness ==
    /\ pmOp.name = "SetGitCommit"
    /\ pmOp.v = <<>>
    /\ pmOp.d # <<>>
    /\ pmOld.Commit # <<>>
    /\ pmOld.Commit # pmOp.d
    /\ pm.Commit = pmOp.d
    /\ pm.Version # <<>>

\* C19: Banner() is "{name} {version}", then ", branch: {branch}" iff the
\* branch is not empty, then ", commit: {commit}" iff the commit is not
\* empty, then ", build on {date} by {user}" and a platform/runtime suffix
\* iff build date and build user are both not empty, and nothing else;
\* ShortBanner() is exactly "{name} {version}".
C19_Banners ==
    LET head == pm.Name \o <<" ">> \o pm.Version
        branch == IF pm.Branch # <<>> THEN <<", branch: ">> \o pm.Branch ELSE <<>>
        commit == IF pm.Commit # <<>> THEN <<", commit: ">> \o pm.Commit ELSE <<>>
        build == <<", build on ">> \o pm.Date \o <<" by ">> \o pm.User
    IN  /\ pmOp.name = "ShortBanner" => banner = head
        /\ pmOp.name = "Banner" =>
             IF pm.Date # <<>> /\ pm.User # <<>>
             THEN /\ HasPrefix(banner, head \o branch \o commit \o build)
                  /\ Len(banner) > Len(head \o branch \o commit \o build)
                  /\ \A k \in (Len(head \o branch \o commit \o build) + 1)..Len(banner) :
                        banner[k] \notin {", branch: ", ", commit: ", ", build on "}
             ELSE banner = head \o branch \o commit

\* Banner() has rendered a PackageManager with branch, commit, build date
\* and build user set, and an operating system without an architecture.
C19_Witness ==
    /\ pmOp.name = "Banner"
    /\ pm.Version # <<>>
    /\ pm.Branch # <<>>
    /\ pm.Commit # <<>>
    /\ pm.Branch # pm.Commit
    /\ pm.Date # <<>>
    /\ pm.User # <<>>
    /\ pm.OperatingSystem # <<>>
    /\ pm.Architecture = <<>>
    /\ Len(banner) > 10

-----------------------------------------------------------------------------
(* Properties of the increment flags of the command.                       *)

\* C20: IncrementMajor, then IncrementMinor, then IncrementPatch on a.b.c
\* give (a+1).1.1 whatever b and c are, and a run of the command with
\* several increment flags applies them in this order: with -major the
\* major is a+1 and minor and patch count from 0, without it they count
\* from b and c; -minor adds one to the minor and has the patch count from
\* 0; -patch adds one to the patch last.  The version file then holds the
\* result.
C20_IncrementOrder ==
    (op = "main" /\ err = "") =>
        LET a == old.Major
            b == IF flags.major THEN 0 ELSE old.Minor
            c == IF flags.major \/ flags.minor THEN 0 ELSE old.Patch
        IN  /\ version.Major = IF flags.major THEN UintInc(a) ELSE a
            /\ version.Minor = IF flags.minor THEN UintInc(b) ELSE b
            /\ version.Patch = IF flags.patch THEN UintInc(c) ELSE c
            /\ (flags.major \/ flags.minor \/ flags.patch)
                  => files[PathRead(path)] = <<[text |-> String(version), eol |-> ""]>>
            /\ \A i \in Steps :
                 LET r == IncPatch(IncMinor(IncMajor(old, i), i), i) IN
                     r.Major = UintInc(a) /\ r.Minor = 1 /\ r.Patch = 1
            /\ (flags.major /\ flags.minor /\ flags.patch)
                  => (version.Major = UintInc(a) /\ version.Minor = 1 /\ version.Patch = 1)

\* The command has run with -major -minor -patch on a version file that
\* held 1.2.3 and the file holds 2.1.1.
C20_Witness ==
    /\ op = "main"
    /\ err = ""
    /\ flags.major /\ flags.minor /\ flags.patch
    /\ old.Major = 1 /\ old.Minor = 2 /\ old.Patch = 3
    /\ files[PathRead(path)] = <<[text |-> <<"2", ".", "1", ".", "1">>, eol |-> ""]>>

\* C22: a run of the command with -major, -minor or -patch and -factor f
\* writes a version whose component (the first of the flags given) is the
\* old one plus f.
C22_FactorApplied ==
    (op = "main" /\ err = "") =>
        /\ flags.major => version.Major = (old.Major + flags.factor) % UintMod
        /\ (flags.minor /\ ~flags.major)
              => version.Minor = (old.Minor + flags.factor) % UintMod
        /\ (flags.patch /\ ~flags.major /\ ~flags.minor)
              => version.Patch = (old.Patch + flags.factor) % UintMod

-----------------------------------------------------------------------------
(* Further properties of the version calculus and of the sync.             *)

\* a is before b in the lexicographic order of (major, minor, patch).
VersionLess(a, b) ==
    \/ a.Major < b.Major
    \/ a.Major = b.Major /\ a.Minor < b.Minor
    \/ a.Major = b.Major /\ a.Minor = b.Minor /\ a.Patch < b.Patch

\* C26: the version after an increment is strictly greater than the one
\* before it, also when a component holds the largest value of its type.
C26_IncrementsAscend ==
    op \in {"IncrementMajor", "IncrementMinor", "IncrementPatch"}
        => VersionLess(old, version)

\* Every recognized version field of the file holds the snapshot version.
VersionFieldsCurrent(d, texts, p) ==
    CASE d = "go" ->
            \A k \in 1..Len(texts) :
                RecognizedSet(texts, k, {"Version"})
                    => FindStringSubmatch(texts[k]).m3 = p.Version
      [] d = "py" ->
            \A k \in 1..Len(texts) :
                (HasPrefix(texts[k], versionDunder) /\ HasSep(texts[k], "="))
                    => PyValue(texts[k]) = p.Version
      [] d = "js" ->
            \A k \in 1..Len(texts) :
                Contains(texts[k], JsMarker) => JsValue(texts[k]) = p.Version

\* C25: after a sync that returned success, written or not, every
\* recognized version field of the file on disk holds the snapshot version,
\* with one recognized line or several.
C25_SuccessMeansCurrent ==
    (runs >= 1 /\ res = "") => VersionFieldsCurrent(dialect, ScanLines(disk), pkg)

\* C30: a Python sync ends with success or with an error it returns, never
\* with a panic, also on a line that starts with __version__ and has no "=".
C30_PySyncNeverPanics ==
    (dialect = "py" /\ runs >= 1) => res # Panic

-----------------------------------------------------------------------------
(* Properties of the command: -init, and increments together with -sync.   *)

\* The file at path p of fs exists and its first line, trimmed, is a valid
\* version string.
LoadsValid(fs, p) == fs[p] # NoFile /\ NewVersion(FirstLine(fs[p])).err = ""

\* C23: a run with -init leaves a version file that loads as a valid
\* version as it is and exits with 0; otherwise it writes a file that holds
\* exactly 1.0.0; a second run with -init right after the first leaves the
\* files as the first left them.
C23_InitIdempotent ==
    [][op' = "init" =>
        /\ exit' = 0
        /\ LoadsValid(files, path') => files' = files
        /\ ~LoadsValid(files, path') =>
              files' = [files EXCEPT
                           ![path'] = <<[text |-> <<"1", ".", "0", ".", "0">>, eol |-> ""]>>]
        /\ (op = "init" /\ path = path') => files' = files]_vars

\* A second run with -init has left the file alone that the first run
\* wrote in place of a file that did not load.
C23_Witness ==
    /\ op = "init"
    /\ exit = 0
    /\ files = oldFiles
    /\ files[path] = <<[text |-> <<"1", ".", "0", ".", "0">>, eol |-> ""]>>

\* C24: in a run with -sync, when the first step is done the version file
\* holds the incremented version and the target is untouched; the sync
\* then uses the incremented version as its snapshot; and when it fails
\* (git, a structural mismatch, an unsupported extension) the run exits
\* non-zero with the version file still holding the incremented version.
C24_VersionFileFirst ==
    LET incremented == flags.major \/ flags.minor \/ flags.patch
        held == <<[text |-> String(version), eol |-> ""]>>
    IN  /\ pc = "updated" =>
             /\ disk = before /\ runs = 0 /\ ~wrote
             /\ incremented => (files[path] = held /\ version # old)
        /\ op = "sync" =>
             /\ git => pkg.Version = String(version)
             /\ res = "" <=> exit = 0
             /\ (res # "" /\ incremented) =>
                    (files[path] = held /\ version # old /\ files # oldFiles)

\* A run with -patch and -sync has failed on a Go target without a
\* constructor call: the version file holds 1.2.4 and the run exited with 1.
C24_Witness ==
    /\ op = "sync"
    /\ dialect = "go"
    /\ res = ErrPkgNotInit
    /\ exit = 1
    /\ flags.patch /\ ~flags.major /\ ~flags.minor
    /\ oldFiles["VERSION"] = CanonFile
    /\ files["VERSION"] = <<[text |-> <<"1", ".", "2", ".", "4">>, eol |-> ""]>>
    /\ disk = before

-----------------------------------------------------------------------------
(* Properties of the TableOfContents.                                      *)

\* The level of a heading as written: the number of pound signs it starts
\* with, white space before them aside.
Level(s) ==
    LET t == TrimSpace(s) IN
    IF \A k \in 1..Len(t) : t[k] = "#" THEN Len(t)
    ELSE (CHOOSE k \in 1..Len(t) : t[k] # "#" /\ \A h \in 1..(k - 1) : t[h] = "#") - 1

\* C21: AddHeading returns an error for the empty string, for a string that
\* does not start with a pound sign, and for a heading more than one level
\* deeper than the last accepted entry when there is one; every other
\* heading is accepted and appended after the entries there were; a call
\* that did not succeed leaves the entries and the last accepted depth as
\* they were.
C21_AddHeading ==
    tocOp.name = "AddHeading" =>
        LET s == tocOp.s
            prev == tocOld.entries
            hop == prev # <<>> /\ Level(s) > prev[Len(prev)].depth + 1
            bad == s = <<>> \/ ~HasPrefix(TrimSpace(s), <<"#">>) \/ hop
        IN  /\ bad => tocErr \in {ErrTocEmpty, ErrTocPound, ErrTocHop}
            /\ ~bad => /\ tocErr = ""
                       /\ Len(toc.entries) = Len(prev) + 1
                       /\ SubSeq(toc.entries, 1, Len(prev)) = prev
            /\ tocErr # "" => /\ toc.entries = prev
                              /\ toc.lastDepth = tocOld.lastDepth

\* C27: whatever strings AddHeading was called with, every entry is at most
\* one level deeper than the entry before it, and minDepth is at most the
\* depth of every entry.
C27_EntriesStepByOne ==
    /\ \A k \in 2..Len(toc.entries) :
            toc.entries[k].depth <= toc.entries[k - 1].depth + 1
    /\ \A k \in 1..Len(toc.entries) : toc.minDepth <= toc.entries[k].depth

\* C28: a ToString() that follows a ToString() with no AddHeading between
\* them returns the same string.
C28_ToStringPure ==
    (tocOp.name = "ToString" /\ lastRendered # NoString) => rendered = lastRendered

\* C29: in the first ToString() of a TableOfContents no two entries get the
\* same anchor.
C29_AnchorsDistinct ==
    (tocOp.name = "ToString" /\ renders = 1) =>
        \A i, j \in 1..Len(links) : i # j => links[i] # links[j]

====
